---- MODULE Spec2Model ----
(***************************************************************************)
(* State-machine model of the stable-fun-new program: the Issuance Record  *)
(* (StablecoinMint), the Vault Record (StablecoinVault), the token ledger  *)
(* accounts the handlers move value through, and the instruction handlers  *)
(* Initialize, Mint, Redeem and UpdateSettings.                            *)
(*                                                                         *)
(* An instruction runs as one transaction: the handler works on the        *)
(* in-memory account structs and on the ledger through CPI requests; the   *)
(* accounts declared #[account(mut)] are written back, and the CPI effects *)
(* kept, only when the handler returns Ok.  A handler result therefore     *)
(* carries the in-memory structs at the moment of return, the requests     *)
(* issued so far, and the error; the action commits them on Ok only.       *)
(***************************************************************************)
EXTENDS Integers, Sequences, FiniteSets, TLC

VARIABLES
    initialized,  \* the record and its vault exist
    mint,         \* the Issuance Record (StablecoinMint account)
    vault,        \* the Vault Record (StablecoinVault account)
    ledger,       \* balances held by the external token ledger
    last,         \* the last instruction: its request and its outcome
    ops,          \* instructions that returned Ok
    failed        \* TRUE once an instruction has returned an error

vars == <<initialized, mint, vault, ledger, last, ops, failed>>

----------------------------------------------------------------------------
(* Bounds of the model *)

\* width of the machine word standing for u64
U64Bits == 30
\* width of the machine word standing for u32
U32Bits == 16
\* number of successful instructions in a run
MaxOps == 4
\* the value Clock::get()?.unix_timestamp returns
ClockNow == 1000
\* collateral the caller holds when the record is created
InitialBond == 6000
\* number of ratio recomputations applied in a row to one vault
MaxCalls == 2
\* MAX_TRANSACTION_AMOUNT scaled with the word (10^12 of 2^64 in the source)
MAX_TRANSACTION_AMOUNT == 1000000

U64_MAX == (2^(U64Bits - 1) - 1) + 2^(U64Bits - 1)
U32_MAX == 2^U32Bits - 1
U16_MAX == 65535

\* failure of a checked_* operation (Option::None)
None == -1

----------------------------------------------------------------------------
(* Program constants *)

MIN_NAME_LENGTH == 3
MIN_SYMBOL_LENGTH == 2
\* state/stablecoin.rs: the lengths the account space is sized for
MAX_NAME_LENGTH == 32
MAX_SYMBOL_LENGTH == 10
MAX_CURRENCY_LENGTH == 10
DEFAULT_COLLATERAL_RATIO == 15000
MIN_COLLATERAL_RATIO == 10000
MIN_TRANSACTION_AMOUNT == 1000
MAX_COLLATERAL_RATIO_BPS == 30000
MAX_FEE_BPS == 1000
MAX_PRICE_STALENESS == 300
PRICE_DECIMALS == 6
MAX_ORACLE_CONFIDENCE == 100000
MIN_ORACLE_COUNT == 1
MAX_ORACLE_COUNT == 3
\* PRICE_SCALE / 100 of constants.rs, with PRICE_SCALE = 10^6
MAX_PRICE_CONFIDENCE == 10000
TOKEN_DECIMALS == 6
DEFAULT_FEE_BPS == 30
BPS == 10000

----------------------------------------------------------------------------
(* Checked u64 arithmetic (utils/math.rs and the std checked_* methods) *)

checked_add(a, b) == IF a > U64_MAX - b THEN None ELSE a + b

\* the subtraction without its check (wrapping_sub)
wrapping_sub(a, b) == IF b > a THEN (U64_MAX - (b - a)) + 1 ELSE a - b

checked_sub(a, b) == IF b > a THEN None ELSE a - b

checked_mul(a, b) ==
    IF a = 0 \/ b = 0 THEN 0
    ELSE IF a > U64_MAX \div b THEN None ELSE a * b

checked_div(a, b) == IF b = 0 THEN None ELSE a \div b

checked_add_u32(a, b) == IF a > U32_MAX - b THEN None ELSE a + b

RECURSIVE Pow10(_)
Pow10(n) == IF n = 0 THEN 1 ELSE 10 * Pow10(n - 1)

\* amount.checked_mul(price).and_then(|v| v.checked_div(10u64.pow(decimals)))
calculate_token_amount(amount, price, decimals) ==
    LET product == checked_mul(amount, price)
    IN  IF product = None THEN None
        ELSE checked_div(product, Pow10(decimals))

\* calculate_fee rounding the quotient up
calculate_fee_RoundedUp(amount, fee_basis_points) ==
    LET product == checked_mul(amount, fee_basis_points)
    IN  IF product = None THEN None
        ELSE checked_div(product, BPS) + (IF product % BPS = 0 THEN 0 ELSE 1)

\* amount.checked_mul(fee_basis_points as u64).and_then(|v| v.checked_div(10000))
calculate_fee(amount, fee_basis_points) ==
    LET product == checked_mul(amount, fee_basis_points)
    IN  IF product = None THEN None
        ELSE checked_div(product, BPS)

\* StablecoinMint::calculate_fee(&self, amount)
StablecoinMint_calculate_fee(m, amount) ==
    LET product == checked_mul(amount, m.settings.fee_basis_points)
    IN  IF product = None THEN None
        ELSE checked_div(product, BPS)

\* common::calculate_percentage of utils/mod.rs
calculate_percentage(amount, basis_points) ==
    LET product == checked_mul(amount, basis_points)
    IN  IF product = None THEN None
        ELSE checked_div(product, BPS)

----------------------------------------------------------------------------
(* u128 ratio arithmetic: (x as u128) * 10000 / (y as u128).               *)
(* The u128 product of a u64 and 10000 never overflows, so the quotient is *)
(* exact; it is computed here as (x div y) * 10000 + floor((x mod y) *     *)
(* 10000 / y), the second term by binary long division, so that no         *)
(* intermediate exceeds the word.                                          *)

\* <<q, r>> with a * m = q * y + r and 0 <= r < y, for 0 <= a < y
RECURSIVE MulDivRem(_, _, _)
MulDivRem(a, m, y) ==
    IF m = 0 THEN <<0, 0>>
    ELSE LET h == MulDivRem(a, m \div 2, y)
             d == IF h[2] >= y - h[2]
                  THEN <<2 * h[1] + 1, h[2] - (y - h[2])>>
                  ELSE <<2 * h[1], 2 * h[2]>>
         IN  IF m % 2 = 1
             THEN IF d[2] >= y - a
                  THEN <<d[1] + 1, d[2] - (y - a)>>
                  ELSE <<d[1], d[2] + a>>
             ELSE d

\* floor(x * 10000 / y) narrowed by `as u16` (keeps the low 16 bits)
ratio_as_u16(x, y) ==
    (((x \div y) % (U16_MAX + 1)) * BPS + MulDivRem(x % y, BPS, y)[1])
        % (U16_MAX + 1)

\* floor(x * 10000 / y) narrowed by u16::try_from (None when it does not fit)
ratio_try_u16(x, y) ==
    IF x \div y > U16_MAX \div BPS THEN None
    ELSE LET q == (x \div y) * BPS + MulDivRem(x % y, BPS, y)[1]
         IN  IF q > U16_MAX THEN None ELSE q

----------------------------------------------------------------------------
(* Oracle Price Validator (utils/oracle.rs) *)

\* `mantissa as u64`: an i128 keeps its low word
as_u64(x) == IF x < 0 THEN (U64_MAX + x) + 1 ELSE x

\* `scale as u8`
as_u8(x) == x % 256

\* OraclePrice::from_switchboard: value and confidence are both the mantissa
from_switchboard(feed) ==
    [value        |-> as_u64(feed.mantissa),
     decimals     |-> as_u8(feed.scale),
     last_updated |-> feed.round_open_timestamp,
     confidence   |-> as_u64(feed.mantissa)]

\* is_stale counting an age of exactly MAX_PRICE_STALENESS as stale
is_stale_Inclusive(price, current_timestamp) ==
    current_timestamp - price.last_updated >= MAX_PRICE_STALENESS

\* current_timestamp.saturating_sub(self.last_updated) > MAX_PRICE_STALENESS
is_stale(price, current_timestamp) ==
    current_timestamp - price.last_updated > MAX_PRICE_STALENESS

\* 10^n is at most u64::MAX (never so from n = 64 on, 10^n being above 2^n)
RECURSIVE Pow10Fits(_)
Pow10Fits(n) ==
    \/ n = 0
    \/ (n < U64Bits /\ Pow10Fits(n - 1) /\ Pow10(n - 1) <= U64_MAX \div 10)

RECURSIVE Pow5Mod(_, _)
Pow5Mod(n, modulus) == IF n = 0 THEN 1 % modulus ELSE (5 * Pow5Mod(n - 1, modulus)) % modulus

\* 10^n modulo 2^64, as 2^n * (5^n mod 2^(64 - n)): what the wrapping
\* multiplication of pow leaves
Pow10Wrapped(n) ==
    IF n >= U64Bits THEN 0 ELSE (2 ^ n) * Pow5Mod(n, 2 ^ (U64Bits - n))

\* the outcome of a panic, where a value is expected
Panicked == -2

\* 10u64.pow(exp): when the power does not fit, a build with overflow checks
\* panics and a build without them wraps
pow_u64(exp, overflow_checks) ==
    IF Pow10Fits(exp) THEN Pow10(exp)
    ELSE IF overflow_checks THEN Panicked
    ELSE Pow10Wrapped(exp)

\* OraclePrice::standardize for every decimals, under either build: the
\* value, None for MathOverflow, or Panicked
standardize_build(price, overflow_checks) ==
    IF price.decimals = PRICE_DECIMALS THEN price.value
    ELSE IF price.decimals > PRICE_DECIMALS
         THEN LET divisor == pow_u64(price.decimals - PRICE_DECIMALS, overflow_checks)
              IN  IF divisor = Panicked THEN Panicked
                  ELSE checked_div(price.value, divisor)
         ELSE LET factor == pow_u64(PRICE_DECIMALS - price.decimals, overflow_checks)
              IN  IF factor = Panicked THEN Panicked
                  ELSE checked_mul(price.value, factor)

\* OraclePrice::standardize where the power of ten fits (every scale of Feeds)
standardize(price) ==
    IF price.decimals = PRICE_DECIMALS THEN price.value
    ELSE IF price.decimals > PRICE_DECIMALS
         THEN checked_div(price.value, Pow10(price.decimals - PRICE_DECIMALS))
         ELSE checked_mul(price.value, Pow10(PRICE_DECIMALS - price.decimals))

\* OracleService::validate_price(price, None): "Ok" or the error
validate_price(price) ==
    IF ~(price.value > 0) THEN "InvalidOraclePrice"
    ELSE IF is_stale(price, ClockNow) THEN "StaleOraclePrice"
    ELSE IF ~(price.confidence <= MAX_ORACLE_CONFIDENCE) THEN "InvalidOraclePrice"
    ELSE "Ok"

\* OracleService::verify_oracle_price: get_price, validate_price, standardize
verify_oracle_price(feed) ==
    IF ~(feed.round_open_timestamp > 0)
    THEN [err |-> "InvalidOracle", price |-> 0]
    ELSE LET price == from_switchboard(feed)
             v     == validate_price(price)
         IN  IF v # "Ok" THEN [err |-> v, price |-> 0]
             ELSE LET p == standardize(price)
                  IN  IF p = None THEN [err |-> "MathOverflow", price |-> 0]
                      ELSE [err |-> "Ok", price |-> p]

\* OracleService::get_price: the round must be open, then from_switchboard
get_price(feed) ==
    IF ~(feed.round_open_timestamp > 0)
    THEN [err |-> "InvalidOracle", price |-> from_switchboard(feed)]
    ELSE [err |-> "Ok", price |-> from_switchboard(feed)]

\* prices.sort_by(|a, b| a.value.cmp(&b.value)): a stable sort by value
RECURSIVE insert_by_value(_, _)
insert_by_value(sorted, price) ==
    IF sorted = <<>> THEN <<price>>
    ELSE IF price.value < Head(sorted).value THEN <<price>> \o sorted
    ELSE <<Head(sorted)>> \o insert_by_value(Tail(sorted), price)

RECURSIVE sort_by_value(_)
sort_by_value(prices) ==
    IF prices = <<>> THEN <<>>
    ELSE insert_by_value(sort_by_value(SubSeq(prices, 1, Len(prices) - 1)),
                         prices[Len(prices)])

\* the samples get_median_price keeps: those get_price and validate_price accept
RECURSIVE valid_prices(_)
valid_prices(oracle_accounts) ==
    IF oracle_accounts = <<>> THEN <<>>
    ELSE LET got == get_price(Head(oracle_accounts))
             rest == valid_prices(Tail(oracle_accounts))
         IN  IF got.err = "Ok" /\ validate_price(got.price) = "Ok"
             THEN <<got.price>> \o rest
             ELSE rest

\* get_median_price returning the element below the middle of an even count
get_median_price_LowerMiddle(oracle_accounts) ==
    IF ~(Len(oracle_accounts) >= MIN_ORACLE_COUNT /\ Len(oracle_accounts) <= MAX_ORACLE_COUNT)
    THEN [err |-> "InvalidOracle", price |-> <<>>]
    ELSE LET prices == sort_by_value(valid_prices(oracle_accounts))
         IN  IF prices = <<>>
             THEN [err |-> "InvalidOraclePrice", price |-> <<>>]
             ELSE [err |-> "Ok", price |-> <<prices[((Len(prices) - 1) \div 2) + 1]>>]

\* OracleService::get_median_price: prices[prices.len() / 2] of the sorted
\* valid samples (sequences are indexed from 1)
get_median_price(oracle_accounts) ==
    IF ~(Len(oracle_accounts) >= MIN_ORACLE_COUNT /\ Len(oracle_accounts) <= MAX_ORACLE_COUNT)
    THEN [err |-> "InvalidOracle", price |-> <<>>]
    ELSE LET prices == sort_by_value(valid_prices(oracle_accounts))
         IN  IF prices = <<>>
             THEN [err |-> "InvalidOraclePrice", price |-> <<>>]
             ELSE [err |-> "Ok", price |-> <<prices[(Len(prices) \div 2) + 1]>>]

----------------------------------------------------------------------------
(* Validation Service (utils/validation.rs) *)

\* ValidationService::validate_amount
validate_amount(amount) ==
    IF amount >= MIN_TRANSACTION_AMOUNT /\ amount <= MAX_TRANSACTION_AMOUNT
    THEN "Ok" ELSE "AmountTooSmall"

\* validate_collateral_ratio without its lower bound
validate_collateral_ratio_NoFloor(collateral, supply, min_ratio) ==
    IF supply = 0 THEN "Ok"
    ELSE LET ratio == ratio_as_u16(collateral, supply)
         IN  IF ratio <= MAX_COLLATERAL_RATIO_BPS
             THEN "Ok" ELSE "CollateralRatioTooLow"

\* ValidationService::validate_collateral_ratio
validate_collateral_ratio(collateral, supply, min_ratio) ==
    IF supply = 0 THEN "Ok"
    ELSE LET ratio == ratio_as_u16(collateral, supply)
         IN  IF ratio >= min_ratio /\ ratio <= MAX_COLLATERAL_RATIO_BPS
             THEN "Ok" ELSE "CollateralRatioTooLow"

\* update_collateral_ratio with the two totals exchanged
update_collateral_ratio_Inverted(v) ==
    IF v.total_value_locked = 0 \/ v.total_collateral = 0
    THEN [v EXCEPT !.current_ratio = 0]
    ELSE [v EXCEPT !.current_ratio =
                       ratio_as_u16(v.total_collateral, v.total_value_locked)]

\* ValidationService::update_collateral_ratio: the vault after the call
update_collateral_ratio(v) ==
    IF v.total_value_locked = 0 \/ v.total_collateral = 0
    THEN [v EXCEPT !.current_ratio = 0]
    ELSE [v EXCEPT !.current_ratio =
                       ratio_as_u16(v.total_value_locked, v.total_collateral)]

\* vault_update_collateral_ratio adding the new ratio to the cached one
vault_update_collateral_ratio_Accumulating(v) ==
    IF v.total_value_locked = 0 \/ v.total_collateral = 0
    THEN [err |-> "Ok", vault |-> [v EXCEPT !.current_ratio = 0]]
    ELSE LET ratio == ratio_try_u16(v.total_value_locked, v.total_collateral)
         IN  IF ratio = None THEN [err |-> "MathOverflow", vault |-> v]
             ELSE [err |-> "Ok",
                   vault |-> [v EXCEPT !.current_ratio =
                                 (v.current_ratio + ratio) % (U16_MAX + 1)]]

\* StablecoinVault::update_collateral_ratio: the error and the vault after
\* the call (current_ratio is not assigned when u16::try_from fails)
vault_update_collateral_ratio(v) ==
    IF v.total_value_locked = 0 \/ v.total_collateral = 0
    THEN [err |-> "Ok", vault |-> [v EXCEPT !.current_ratio = 0]]
    ELSE LET ratio == ratio_try_u16(v.total_value_locked, v.total_collateral)
         IN  IF ratio = None THEN [err |-> "MathOverflow", vault |-> v]
             ELSE [err |-> "Ok", vault |-> [v EXCEPT !.current_ratio = ratio]]

\* StablecoinVault::can_withdraw(&self, amount, min_ratio)
can_withdraw(v, amount, min_ratio) ==
    IF amount >= v.total_collateral THEN FALSE
    ELSE LET new_collateral == checked_sub(v.total_collateral, amount)
         IN  IF new_collateral = None \/ ~(new_collateral > 0) THEN FALSE
             ELSE LET new_ratio == ratio_try_u16(v.total_value_locked, new_collateral)
                  IN  IF new_ratio = None THEN FALSE
                      ELSE new_ratio >= min_ratio

----------------------------------------------------------------------------
(* Records *)

\* the account slots before Initialize creates them (zeroed account data)
EmptyMint ==
    [authority       |-> "none",
     name_len        |-> 0,
     symbol_len      |-> 0,
     token_mint      |-> "none",
     stablebond_mint |-> "none",
     price_feed      |-> "none",
     vault           |-> "none",
     current_supply  |-> 0,
     settings        |-> [fee_basis_points     |-> 0,
                          max_supply           |-> 0,
                          min_collateral_ratio |-> 0,
                          mint_paused          |-> FALSE,
                          redeem_paused        |-> FALSE],
     stats           |-> [total_minted |-> 0, total_burned |-> 0, total_fees |-> 0],
     created_at      |-> 0,
     last_updated    |-> 0]

EmptyVault ==
    [stablecoin_mint      |-> "none",
     authority            |-> "none",
     collateral_account   |-> "none",
     total_collateral     |-> 0,
     total_value_locked   |-> 0,
     current_ratio        |-> 0,
     last_deposit_time    |-> 0,
     last_withdrawal_time |-> 0,
     deposit_count        |-> 0,
     withdrawal_count     |-> 0]

\* token-ledger balances: the caller's issued-token account, the caller's
\* collateral account and the vault's collateral account
EmptyLedger == [user_token |-> 0, user_bond |-> InitialBond, vault_bond |-> 0]

\* Option<T>: <<>> is None, <<x>> is Some(x)
Some(x) == <<x>>
NoneOpt == <<>>
IsSome(o) == Len(o) = 1
unwrap_or(o, d) == IF IsSome(o) THEN o[1] ELSE d

NoParams ==
    [min_collateral_ratio |-> NoneOpt, fee_basis_points |-> NoneOpt,
     max_supply |-> NoneOpt, mint_paused |-> NoneOpt, redeem_paused |-> NoneOpt]

NoFeed == [mantissa |-> 0, scale |-> 0, round_open_timestamp |-> 0]

NoOp == [op |-> "none", caller |-> "none", amount |-> 0, params |-> NoParams,
         feed |-> NoFeed, err |-> "Ok", cpi |-> <<>>, dirty |-> FALSE]

\* what an instruction returns: the error, the in-memory structs and the
\* ledger at the moment of return, and the CPI requests issued so far
Result(err, m, v, l, cpi) ==
    [err |-> err, mint |-> m, vault |-> v, ledger |-> l, cpi |-> cpi]

Callers == {"authority", "other"}

----------------------------------------------------------------------------
(* Inputs *)

\* switchboard rounds: mantissa, scale and the round's open timestamp
Feeds ==
    { [mantissa |-> 1,      scale |-> 0, round_open_timestamp |-> ClockNow],
      [mantissa |-> 5,      scale |-> 1, round_open_timestamp |-> ClockNow - MAX_PRICE_STALENESS],
      [mantissa |-> 105,    scale |-> 2, round_open_timestamp |-> ClockNow - 1],
      [mantissa |-> 1,      scale |-> 6, round_open_timestamp |-> ClockNow],
      [mantissa |-> 1,      scale |-> 0, round_open_timestamp |-> ClockNow - MAX_PRICE_STALENESS - 1],
      [mantissa |-> 0,      scale |-> 0, round_open_timestamp |-> ClockNow],
      [mantissa |-> 100001, scale |-> 6, round_open_timestamp |-> ClockNow] }

MintAmounts == {0, 1000, 2000, 1000000, U64_MAX}

RedeemAmounts == {0, 999, 1000, 1003, 1100, 2000, MAX_TRANSACTION_AMOUNT}

\* UpdateSettingsParams requests
SettingsRequests ==
    { [NoParams EXCEPT !.min_collateral_ratio = Some(MIN_COLLATERAL_RATIO - 1)],
      [NoParams EXCEPT !.min_collateral_ratio = Some(MIN_COLLATERAL_RATIO)],
      [NoParams EXCEPT !.min_collateral_ratio = Some(MAX_COLLATERAL_RATIO_BPS + 1)],
      [NoParams EXCEPT !.fee_basis_points = Some(0)],
      [NoParams EXCEPT !.fee_basis_points = Some(MAX_FEE_BPS)],
      [NoParams EXCEPT !.fee_basis_points = Some(MAX_FEE_BPS + 1)],
      [NoParams EXCEPT !.max_supply = Some(2000)],
      [NoParams EXCEPT !.mint_paused = Some(TRUE)],
      [NoParams EXCEPT !.mint_paused = Some(TRUE), !.max_supply = Some(2000)],
      [NoParams EXCEPT !.mint_paused = Some(FALSE)],
      [NoParams EXCEPT !.redeem_paused = Some(TRUE)],
      [NoParams EXCEPT !.min_collateral_ratio = Some(MIN_COLLATERAL_RATIO),
                       !.fee_basis_points = Some(MAX_FEE_BPS)],
      [NoParams EXCEPT !.min_collateral_ratio = Some(MIN_COLLATERAL_RATIO - 1),
                       !.max_supply = Some(1)],
      [NoParams EXCEPT !.min_collateral_ratio = Some(12000),
                       !.fee_basis_points = Some(50),
                       !.max_supply = Some(1),
                       !.redeem_paused = Some(TRUE)] }

\* UpdateMetadata requests (UpdateMetadataParams; icon_uri is never read)
NoMetadata == [name |-> NoneOpt, symbol |-> NoneOpt]

MetadataRequests ==
    { NoMetadata,
      [NoMetadata EXCEPT !.name = Some(0)],
      [NoMetadata EXCEPT !.name = Some(1)],
      [NoMetadata EXCEPT !.name = Some(MAX_NAME_LENGTH + 1)],
      [NoMetadata EXCEPT !.symbol = Some(1)],
      [NoMetadata EXCEPT !.symbol = Some(MAX_SYMBOL_LENGTH + 1)],
      [name |-> Some(MAX_NAME_LENGTH), symbol |-> Some(MAX_SYMBOL_LENGTH)],
      [name |-> Some(MAX_NAME_LENGTH), symbol |-> Some(0)] }

\* Initialize requests: name length, symbol length, currency length
NameLens == {MIN_NAME_LENGTH - 1, MIN_NAME_LENGTH}
SymbolLens == {MIN_SYMBOL_LENGTH - 1, MIN_SYMBOL_LENGTH}
CurrencyLens == {0, 3}

----------------------------------------------------------------------------
(* Initialize (lib.rs initialize, instructions/initialize.rs handler) *)

\* StablecoinMint::LEN, the space the `init` constraint allocates
StablecoinMint_LEN ==
    8 + 32 + (4 + MAX_NAME_LENGTH) + (4 + MAX_SYMBOL_LENGTH)
      + (4 + MAX_CURRENCY_LENGTH) + 32 + 32 + 32 + 32 + 8 + 32 + 40 + 8 + 8

\* bytes the record serializes to: discriminator, authority, three
\* length-prefixed strings, four keys, current_supply, settings (14 bytes),
\* stats (52 bytes), created_at, last_updated
serialized_len(name_len, symbol_len, currency_len) ==
    8 + 32 + (4 + name_len) + (4 + symbol_len) + (4 + currency_len)
      + 32 + 32 + 32 + 32 + 8 + 14 + 52 + 8 + 8

\* InitializeResult without the `init` constraint's check that the record
\* does not exist yet
InitializeResult_Reinit(m, v, l, exists, name_len, symbol_len, currency_len, feed) ==
    IF ~(name_len >= MIN_NAME_LENGTH)
    THEN Result("NameTooShort", m, v, l, <<>>)
    ELSE IF ~(symbol_len >= MIN_SYMBOL_LENGTH)
    THEN Result("SymbolTooShort", m, v, l, <<>>)
    ELSE IF currency_len = 0
    THEN Result("InvalidCurrency", m, v, l, <<>>)
    ELSE IF ~(feed.mantissa > 0)
    THEN Result("InvalidOraclePrice", m, v, l, <<>>)
    ELSE Result("Ok",
           [EmptyMint EXCEPT !.authority = "authority",
                             !.name_len = name_len,
                             !.symbol_len = symbol_len,
                             !.token_mint = "token_mint",
                             !.stablebond_mint = "stablebond_mint",
                             !.price_feed = "price_feed",
                             !.vault = "vault",
                             !.settings = [fee_basis_points     |-> DEFAULT_FEE_BPS,
                                           max_supply           |-> U64_MAX,
                                           min_collateral_ratio |-> DEFAULT_COLLATERAL_RATIO,
                                           mint_paused          |-> FALSE,
                                           redeem_paused        |-> FALSE],
                             !.created_at = ClockNow,
                             !.last_updated = ClockNow],
           [EmptyVault EXCEPT !.stablecoin_mint = "stablecoin_mint",
                              !.authority = "authority",
                              !.collateral_account = "vault_token_account",
                              !.last_deposit_time = ClockNow,
                              !.last_withdrawal_time = ClockNow],
           l, <<>>)

InitializeResult(m, v, l, exists, name_len, symbol_len, currency_len, feed) ==
    IF exists
    THEN Result("AccountAlreadyInUse", m, v, l, <<>>)
    ELSE IF ~(name_len >= MIN_NAME_LENGTH)
    THEN Result("NameTooShort", m, v, l, <<>>)
    ELSE IF ~(symbol_len >= MIN_SYMBOL_LENGTH)
    THEN Result("SymbolTooShort", m, v, l, <<>>)
    ELSE IF currency_len = 0
    THEN Result("InvalidCurrency", m, v, l, <<>>)
    ELSE IF ~(feed.mantissa > 0)
    THEN Result("InvalidOraclePrice", m, v, l, <<>>)
    ELSE IF serialized_len(name_len, symbol_len, currency_len) > StablecoinMint_LEN
    THEN Result("AccountDidNotSerialize", m, v, l, <<>>)
    ELSE Result("Ok",
           [authority       |-> "authority",
            name_len        |-> name_len,
            symbol_len      |-> symbol_len,
            token_mint      |-> "token_mint",
            stablebond_mint |-> "stablebond_mint",
            price_feed      |-> "price_feed",
            vault           |-> "vault",
            current_supply  |-> 0,
            settings        |-> [fee_basis_points     |-> DEFAULT_FEE_BPS,
                                 max_supply           |-> U64_MAX,
                                 min_collateral_ratio |-> DEFAULT_COLLATERAL_RATIO,
                                 mint_paused          |-> FALSE,
                                 redeem_paused        |-> FALSE],
            stats           |-> [total_minted |-> 0, total_burned |-> 0,
                                 total_fees |-> 0],
            created_at      |-> ClockNow,
            last_updated    |-> ClockNow],
           [stablecoin_mint      |-> "stablecoin_mint",
            authority            |-> "authority",
            collateral_account   |-> "vault_token_account",
            total_collateral     |-> 0,
            total_value_locked   |-> 0,
            current_ratio        |-> 0,
            last_deposit_time    |-> ClockNow,
            last_withdrawal_time |-> ClockNow,
            deposit_count        |-> 0,
            withdrawal_count     |-> 0],
           l, <<>>)

----------------------------------------------------------------------------
(* Mint (lib.rs mint, instructions/mint.rs handler) *)

\* MintCommit with the fee counted into stats.total_minted
MintCommit_FeeInMinted(m, v, l, amount, collateral_amount, fee_amount, total_amount, cpi) ==
    LET tc == checked_add(v.total_collateral, collateral_amount)
        v1 == [v EXCEPT !.total_collateral = tc]
        tvl == checked_add(v.total_value_locked, amount)
        v2 == [v1 EXCEPT !.total_value_locked = tvl]
        dc == checked_add_u32(v.deposit_count, 1)
        v3 == [v2 EXCEPT !.deposit_count = dc, !.last_deposit_time = ClockNow]
        v4 == update_collateral_ratio(v3)
        cs == checked_add(m.current_supply, total_amount)
        m1 == [m EXCEPT !.current_supply = cs]
        tm == checked_add(m.stats.total_minted, total_amount)
        m2 == [m1 EXCEPT !.stats.total_minted = tm]
        tf == checked_add(m.stats.total_fees, fee_amount)
        m3 == [m2 EXCEPT !.stats.total_fees = tf, !.last_updated = ClockNow]
    IN  IF tc = None THEN Result("MathOverflow", m, v, l, cpi)
        ELSE IF tvl = None THEN Result("MathOverflow", m, v1, l, cpi)
        ELSE IF dc = None THEN Result("MathOverflow", m, v2, l, cpi)
        ELSE IF cs = None THEN Result("MathOverflow", m, v4, l, cpi)
        ELSE IF tm = None THEN Result("MathOverflow", m1, v4, l, cpi)
        ELSE IF tf = None THEN Result("MathOverflow", m2, v4, l, cpi)
        ELSE Result("Ok", m3, v4, l, cpi)

\* the part of the handler after the two CPI requests: the vault and the
\* record are updated field by field, each step checked
MintCommit(m, v, l, amount, collateral_amount, fee_amount, total_amount, cpi) ==
    LET tc == checked_add(v.total_collateral, collateral_amount)
        v1 == [v EXCEPT !.total_collateral = tc]
        tvl == checked_add(v.total_value_locked, amount)
        v2 == [v1 EXCEPT !.total_value_locked = tvl]
        dc == checked_add_u32(v.deposit_count, 1)
        v3 == [v2 EXCEPT !.deposit_count = dc, !.last_deposit_time = ClockNow]
        v4 == update_collateral_ratio(v3)
        cs == checked_add(m.current_supply, total_amount)
        m1 == [m EXCEPT !.current_supply = cs]
        tm == checked_add(m.stats.total_minted, amount)
        m2 == [m1 EXCEPT !.stats.total_minted = tm]
        tf == checked_add(m.stats.total_fees, fee_amount)
        m3 == [m2 EXCEPT !.stats.total_fees = tf, !.last_updated = ClockNow]
    IN  IF tc = None THEN Result("MathOverflow", m, v, l, cpi)
        ELSE IF tvl = None THEN Result("MathOverflow", m, v1, l, cpi)
        ELSE IF dc = None THEN Result("MathOverflow", m, v2, l, cpi)
        ELSE IF cs = None THEN Result("MathOverflow", m, v4, l, cpi)
        ELSE IF tm = None THEN Result("MathOverflow", m1, v4, l, cpi)
        ELSE IF tf = None THEN Result("MathOverflow", m2, v4, l, cpi)
        ELSE Result("Ok", m3, v4, l, cpi)

\* MintTransfer handing the issued total, fee included, on as the value locked
MintTransfer_TotalLocked(m, v, l, amount, collateral_amount, fee_amount, total_amount) ==
    LET transfer == <<"transfer", collateral_amount>>
        mint_to  == <<"mint_to", total_amount>>
        l1 == [l EXCEPT !.user_bond = l.user_bond - collateral_amount,
                        !.vault_bond = l.vault_bond + collateral_amount]
        l2 == [l1 EXCEPT !.user_token = l.user_token + total_amount]
    IN  IF l.user_bond < collateral_amount
        THEN Result("LedgerError", m, v, l, <<transfer>>)
        ELSE IF checked_add(l.user_token, total_amount) = None
        THEN Result("LedgerError", m, v, l1, <<transfer, mint_to>>)
        ELSE MintCommit(m, v, l2, total_amount, collateral_amount, fee_amount,
                        total_amount, <<transfer, mint_to>>)

\* the two CPI requests of Mint: token::transfer of the collateral from the
\* caller to the vault, then token::mint_to of the issued units
MintTransfer(m, v, l, amount, collateral_amount, fee_amount, total_amount) ==
    LET transfer == <<"transfer", collateral_amount>>
        mint_to  == <<"mint_to", total_amount>>
        l1 == [l EXCEPT !.user_bond = l.user_bond - collateral_amount,
                        !.vault_bond = l.vault_bond + collateral_amount]
        l2 == [l1 EXCEPT !.user_token = l.user_token + total_amount]
    IN  IF l.user_bond < collateral_amount
        THEN Result("LedgerError", m, v, l, <<transfer>>)
        ELSE IF checked_add(l.user_token, total_amount) = None
        THEN Result("LedgerError", m, v, l1, <<transfer, mint_to>>)
        ELSE MintCommit(m, v, l2, amount, collateral_amount, fee_amount,
                        total_amount, <<transfer, mint_to>>)

\* the handler from its amount validation on
MintChecked(m, v, l, amount, feed) ==
    IF ~(amount > 0) THEN Result("InvalidAmount", m, v, l, <<>>)
    ELSE IF checked_add(m.current_supply, amount) = None
    THEN Result("Panic", m, v, l, <<>>)
    ELSE IF ~(checked_add(m.current_supply, amount) <= m.settings.max_supply)
    THEN Result("MaxSupplyExceeded", m, v, l, <<>>)
    ELSE LET oracle == verify_oracle_price(feed)
             collateral_amount ==
                 calculate_token_amount(amount, oracle.price, TOKEN_DECIMALS)
             fee_amount == calculate_fee(amount, m.settings.fee_basis_points)
             total_amount == checked_add(amount, fee_amount)
         IN  IF oracle.err # "Ok" THEN Result(oracle.err, m, v, l, <<>>)
             ELSE IF collateral_amount = None
             THEN Result("MathOverflow", m, v, l, <<>>)
             ELSE IF fee_amount = None
             THEN Result("MathOverflow", m, v, l, <<>>)
             ELSE IF total_amount = None
             THEN Result("MathOverflow", m, v, l, <<>>)
             ELSE MintTransfer(m, v, l, amount, collateral_amount, fee_amount,
                               total_amount)

\* MintHandler with the pause gate reading the wrong flag
MintHandler_WrongPauseFlag(m, v, l, amount, feed) ==
    IF m.settings.redeem_paused THEN Result("MintingPaused", m, v, l, <<>>)
    ELSE MintChecked(m, v, l, amount, feed)

MintHandler(m, v, l, amount, feed) ==
    IF m.settings.mint_paused THEN Result("MintingPaused", m, v, l, <<>>)
    ELSE MintChecked(m, v, l, amount, feed)

\* the MintStablecoin account constraints, then the entry point of lib.rs
MintResult(m, v, l, caller, amount, feed) ==
    IF m.authority # caller THEN Result("UnauthorizedMint", m, v, l, <<>>)
    ELSE IF ~(amount > 0) THEN Result("InvalidAmount", m, v, l, <<>>)
    ELSE MintHandler(m, v, l, amount, feed)

----------------------------------------------------------------------------
(* Redeem (lib.rs redeem, instructions/redeem.rs handler) *)

\* RedeemCommit with stats.total_fees assigned instead of accumulated
RedeemCommit_FeesOverwritten(m, v, l, amount, fee_amount, remaining_collateral, remaining_supply, cpi) ==
    LET v1 == [v EXCEPT !.total_collateral = remaining_collateral]
        tvl == checked_sub(v.total_value_locked, amount)
        v2 == [v1 EXCEPT !.total_value_locked = tvl]
        wc == checked_add_u32(v.withdrawal_count, 1)
        v3 == [v2 EXCEPT !.withdrawal_count = wc,
                         !.last_withdrawal_time = ClockNow]
        m1 == [m EXCEPT !.current_supply = remaining_supply]
        tb == checked_add(m.stats.total_burned, amount)
        m2 == [m1 EXCEPT !.stats.total_burned = tb]
        tf == fee_amount
        m3 == [m2 EXCEPT !.stats.total_fees = tf, !.last_updated = ClockNow]
    IN  IF tvl = None THEN Result("MathOverflow", m, v1, l, cpi)
        ELSE IF wc = None THEN Result("MathOverflow", m, v2, l, cpi)
        ELSE IF tb = None THEN Result("MathOverflow", m1, v3, l, cpi)
        ELSE IF tf = None THEN Result("MathOverflow", m2, v3, l, cpi)
        ELSE Result("Ok", m3, v3, l, cpi)

\* the part of the handler after the two CPI requests
RedeemCommit(m, v, l, amount, fee_amount, remaining_collateral, remaining_supply, cpi) ==
    LET v1 == [v EXCEPT !.total_collateral = remaining_collateral]
        tvl == checked_sub(v.total_value_locked, amount)
        v2 == [v1 EXCEPT !.total_value_locked = tvl]
        wc == checked_add_u32(v.withdrawal_count, 1)
        v3 == [v2 EXCEPT !.withdrawal_count = wc,
                         !.last_withdrawal_time = ClockNow]
        m1 == [m EXCEPT !.current_supply = remaining_supply]
        tb == checked_add(m.stats.total_burned, amount)
        m2 == [m1 EXCEPT !.stats.total_burned = tb]
        tf == checked_add(m.stats.total_fees, fee_amount)
        m3 == [m2 EXCEPT !.stats.total_fees = tf, !.last_updated = ClockNow]
    IN  IF tvl = None THEN Result("MathOverflow", m, v1, l, cpi)
        ELSE IF wc = None THEN Result("MathOverflow", m, v2, l, cpi)
        ELSE IF tb = None THEN Result("MathOverflow", m1, v3, l, cpi)
        ELSE IF tf = None THEN Result("MathOverflow", m2, v3, l, cpi)
        ELSE Result("Ok", m3, v3, l, cpi)

\* RedeemTransfer keeping the fee units in the supply
RedeemTransfer_FeeNotBurned(m, v, l, amount, collateral_amount, fee_amount, burn_amount, remaining_collateral, remaining_supply) ==
    LET burn     == <<"burn", burn_amount>>
        transfer == <<"transfer", collateral_amount>>
        l1 == [l EXCEPT !.user_token = l.user_token - burn_amount]
        l2 == [l1 EXCEPT !.vault_bond = l.vault_bond - collateral_amount,
                         !.user_bond = l.user_bond + collateral_amount]
    IN  IF l.user_token < burn_amount
        THEN Result("LedgerError", m, v, l, <<burn>>)
        ELSE IF l.vault_bond < collateral_amount
        THEN Result("LedgerError", m, v, l1, <<burn, transfer>>)
        ELSE RedeemCommit(m, v, l2, amount, fee_amount, remaining_collateral,
                          remaining_supply + fee_amount, <<burn, transfer>>)

\* RedeemTransfer requesting the collateral transfer ahead of the burn
RedeemTransfer_TransferFirst(m, v, l, amount, collateral_amount, fee_amount, burn_amount, remaining_collateral, remaining_supply) ==
    LET burn     == <<"burn", burn_amount>>
        transfer == <<"transfer", collateral_amount>>
        l1 == [l EXCEPT !.vault_bond = l.vault_bond - collateral_amount,
                        !.user_bond = l.user_bond + collateral_amount]
        l2 == [l1 EXCEPT !.user_token = l.user_token - burn_amount]
    IN  IF l.vault_bond < collateral_amount
        THEN Result("LedgerError", m, v, l, <<transfer>>)
        ELSE IF l.user_token < burn_amount
        THEN Result("LedgerError", m, v, l1, <<transfer, burn>>)
        ELSE RedeemCommit(m, v, l2, amount, fee_amount, remaining_collateral,
                          remaining_supply, <<transfer, burn>>)

\* the two CPI requests of Redeem: token::burn of the issued units, then
\* token::transfer of the collateral from the vault to the caller
RedeemTransfer(m, v, l, amount, collateral_amount, fee_amount, burn_amount, remaining_collateral, remaining_supply) ==
    LET burn     == <<"burn", burn_amount>>
        transfer == <<"transfer", collateral_amount>>
        l1 == [l EXCEPT !.user_token = l.user_token - burn_amount]
        l2 == [l1 EXCEPT !.vault_bond = l.vault_bond - collateral_amount,
                         !.user_bond = l.user_bond + collateral_amount]
    IN  IF l.user_token < burn_amount
        THEN Result("LedgerError", m, v, l, <<burn>>)
        ELSE IF l.vault_bond < collateral_amount
        THEN Result("LedgerError", m, v, l1, <<burn, transfer>>)
        ELSE RedeemCommit(m, v, l2, amount, fee_amount, remaining_collateral,
                          remaining_supply, <<burn, transfer>>)

\* the handler from its amount validation on
RedeemChecked(m, v, l, amount, feed) ==
    IF ~(amount > 0) THEN Result("InvalidAmount", m, v, l, <<>>)
    ELSE IF ~(amount <= l.user_token)
    THEN Result("InsufficientBalance", m, v, l, <<>>)
    ELSE IF validate_amount(amount) # "Ok"
    THEN Result(validate_amount(amount), m, v, l, <<>>)
    ELSE LET oracle == verify_oracle_price(feed)
             collateral_amount ==
                 calculate_token_amount(amount, oracle.price, TOKEN_DECIMALS)
             fee_amount == calculate_fee(amount, m.settings.fee_basis_points)
             burn_amount == checked_add(amount, fee_amount)
             remaining_collateral ==
                 checked_sub(v.total_collateral, collateral_amount)
             remaining_supply == checked_sub(m.current_supply, burn_amount)
             ratio_check ==
                 IF remaining_supply > 0
                 THEN validate_collateral_ratio(remaining_collateral,
                          remaining_supply, m.settings.min_collateral_ratio)
                 ELSE "Ok"
         IN  IF oracle.err # "Ok" THEN Result(oracle.err, m, v, l, <<>>)
             ELSE IF collateral_amount = None
             THEN Result("MathOverflow", m, v, l, <<>>)
             ELSE IF fee_amount = None
             THEN Result("MathOverflow", m, v, l, <<>>)
             ELSE IF burn_amount = None
             THEN Result("MathOverflow", m, v, l, <<>>)
             ELSE IF remaining_collateral = None
             THEN Result("MathOverflow", m, v, l, <<>>)
             ELSE IF remaining_supply = None
             THEN Result("MathOverflow", m, v, l, <<>>)
             ELSE IF ratio_check # "Ok" THEN Result(ratio_check, m, v, l, <<>>)
             ELSE RedeemTransfer(m, v, l, amount, collateral_amount,
                      fee_amount, burn_amount, remaining_collateral,
                      remaining_supply)

\* RedeemHandler with the balance check ahead of the pause gate
RedeemHandler_BalanceFirst(m, v, l, amount, feed) ==
    IF ~(amount <= l.user_token)
    THEN Result("InsufficientBalance", m, v, l, <<>>)
    ELSE IF m.settings.redeem_paused
    THEN Result("RedeemingPaused", m, v, l, <<>>)
    ELSE RedeemChecked(m, v, l, amount, feed)

RedeemHandler(m, v, l, amount, feed) ==
    IF m.settings.redeem_paused THEN Result("RedeemingPaused", m, v, l, <<>>)
    ELSE RedeemChecked(m, v, l, amount, feed)

\* the entry point of lib.rs
RedeemResult(m, v, l, amount, feed) ==
    IF ~(amount > 0) THEN Result("InvalidAmount", m, v, l, <<>>)
    ELSE RedeemHandler(m, v, l, amount, feed)

----------------------------------------------------------------------------
(* UpdateSettings (lib.rs update_settings, instructions/update.rs handler) *)

\* UpdateSettingsHandler writing mint_paused on every request, an absent
\* flag as false
UpdateSettingsHandler_ResetsPause(m, v, l, params) ==
    LET m1 == IF IsSome(params.min_collateral_ratio)
              THEN [m EXCEPT !.settings.min_collateral_ratio =
                                 params.min_collateral_ratio[1]]
              ELSE m
        m2 == IF IsSome(params.fee_basis_points)
              THEN [m1 EXCEPT !.settings.fee_basis_points =
                                  params.fee_basis_points[1]]
              ELSE m1
        m3 == IF IsSome(params.max_supply)
              THEN [m2 EXCEPT !.settings.max_supply = params.max_supply[1]]
              ELSE m2
        m4 == [m3 EXCEPT !.settings.mint_paused =
                             unwrap_or(params.mint_paused, FALSE)]
        m5 == IF IsSome(params.redeem_paused)
              THEN [m4 EXCEPT !.settings.redeem_paused = params.redeem_paused[1]]
              ELSE m4
        m6 == [m5 EXCEPT !.last_updated = ClockNow]
    IN  IF IsSome(params.max_supply)
           /\ ~(params.max_supply[1] >= m.current_supply)
        THEN Result("InvalidMaxSupply", m2, v, l, <<>>)
        ELSE Result("Ok", m6, v, l, <<>>)

UpdateSettingsHandler(m, v, l, params) ==
    LET m1 == IF IsSome(params.min_collateral_ratio)
              THEN [m EXCEPT !.settings.min_collateral_ratio =
                                 params.min_collateral_ratio[1]]
              ELSE m
        m2 == IF IsSome(params.fee_basis_points)
              THEN [m1 EXCEPT !.settings.fee_basis_points =
                                  params.fee_basis_points[1]]
              ELSE m1
        m3 == IF IsSome(params.max_supply)
              THEN [m2 EXCEPT !.settings.max_supply = params.max_supply[1]]
              ELSE m2
        m4 == IF IsSome(params.mint_paused)
              THEN [m3 EXCEPT !.settings.mint_paused = params.mint_paused[1]]
              ELSE m3
        m5 == IF IsSome(params.redeem_paused)
              THEN [m4 EXCEPT !.settings.redeem_paused = params.redeem_paused[1]]
              ELSE m4
        m6 == [m5 EXCEPT !.last_updated = ClockNow]
    IN  IF IsSome(params.max_supply)
           /\ ~(params.max_supply[1] >= m.current_supply)
        THEN Result("InvalidMaxSupply", m2, v, l, <<>>)
        ELSE Result("Ok", m6, v, l, <<>>)

\* the UpdateSettings account constraint, then the entry point of lib.rs
UpdateSettingsResult(m, v, l, caller, params) ==
    IF m.authority # caller THEN Result("UnauthorizedUpdate", m, v, l, <<>>)
    ELSE IF ~(unwrap_or(params.min_collateral_ratio, MIN_COLLATERAL_RATIO)
                  >= MIN_COLLATERAL_RATIO)
    THEN Result("CollateralRatioTooLow", m, v, l, <<>>)
    ELSE UpdateSettingsHandler(m, v, l, params)

----------------------------------------------------------------------------
(* UpdateMetadata (instructions/update.rs update_metadata; lib.rs has no   *)
(* entry point for it, it is modelled as called with its own accounts)     *)

\* the name is checked and assigned before the symbol is checked
UpdateMetadataHandler(m, v, l, params) ==
    LET name_ok == \/ ~IsSome(params.name)
                   \/ (params.name[1] # 0 /\ params.name[1] <= 32)
        symbol_ok == \/ ~IsSome(params.symbol)
                     \/ (params.symbol[1] # 0 /\ params.symbol[1] <= 10)
        m1 == IF IsSome(params.name)
              THEN [m EXCEPT !.name_len = params.name[1]]
              ELSE m
        m2 == IF IsSome(params.symbol)
              THEN [m1 EXCEPT !.symbol_len = params.symbol[1]]
              ELSE m1
        m3 == [m2 EXCEPT !.last_updated = ClockNow]
    IN  IF ~name_ok THEN Result("InvalidName", m, v, l, <<>>)
        ELSE IF ~symbol_ok THEN Result("InvalidSymbol", m1, v, l, <<>>)
        ELSE Result("Ok", m3, v, l, <<>>)

\* UpdateMetadataResult without the authority constraint
UpdateMetadataResult_NoAuthority(m, v, l, caller, params) ==
    UpdateMetadataHandler(m, v, l, params)

\* the UpdateMetadata account constraint, then update_metadata
UpdateMetadataResult(m, v, l, caller, params) ==
    IF m.authority # caller THEN Result("UnauthorizedUpdate", m, v, l, <<>>)
    ELSE UpdateMetadataHandler(m, v, l, params)

----------------------------------------------------------------------------
(* The state machine *)

Init ==
    /\ initialized = FALSE
    /\ mint = EmptyMint
    /\ vault = EmptyVault
    /\ ledger = EmptyLedger
    /\ last = NoOp
    /\ ops = 0
    /\ failed = FALSE

\* Commit writing the handler's accounts back even when it failed
Commit_KeepsFailedWrites(op, caller, amount, params, feed, res) ==
    /\ last' = [op |-> op, caller |-> caller, amount |-> amount,
                params |-> params, feed |-> feed,
                err |-> res.err, cpi |-> res.cpi,
                dirty |-> (res.mint # mint \/ res.vault # vault)]
    /\ mint' = res.mint
    /\ vault' = res.vault
    /\ ledger' = res.ledger
    /\ IF res.err = "Ok"
       THEN ops' = ops + 1 /\ failed' = FALSE
       ELSE ops' = ops /\ failed' = TRUE

\* the transaction boundary: the accounts and the ledger keep the handler's
\* writes when it returned Ok and are left as they were otherwise
Commit(op, caller, amount, params, feed, res) ==
    /\ last' = [op |-> op, caller |-> caller, amount |-> amount,
                params |-> params, feed |-> feed,
                err |-> res.err, cpi |-> res.cpi,
                dirty |-> (res.mint # mint \/ res.vault # vault)]
    /\ IF res.err = "Ok"
       THEN /\ mint' = res.mint
            /\ vault' = res.vault
            /\ ledger' = res.ledger
            /\ ops' = ops + 1
            /\ failed' = FALSE
       ELSE /\ UNCHANGED <<mint, vault, ledger, ops>>
            /\ failed' = TRUE

\* a failed transaction changes no account: what can follow it is what could
\* have run in its place, so a run is followed up to its first failure
CanRun == ops < MaxOps /\ ~failed

Initialize ==
    /\ CanRun
    /\ \E name_len \in NameLens, symbol_len \in SymbolLens,
          currency_len \in CurrencyLens, feed \in Feeds :
          LET res == InitializeResult(mint, vault, ledger, initialized,
                         name_len, symbol_len, currency_len, feed)
          IN  /\ Commit("Initialize", "authority", 0, NoParams, feed, res)
              /\ initialized' = (initialized \/ res.err = "Ok")

Mint ==
    /\ CanRun
    /\ initialized
    /\ \E caller \in Callers, amount \in MintAmounts, feed \in Feeds :
          Commit("Mint", caller, amount, NoParams, feed,
                 MintResult(mint, vault, ledger, caller, amount, feed))
    /\ UNCHANGED initialized

Redeem ==
    /\ CanRun
    /\ initialized
    /\ \E amount \in RedeemAmounts, feed \in Feeds :
          Commit("Redeem", "authority", amount, NoParams, feed,
                 RedeemResult(mint, vault, ledger, amount, feed))
    /\ UNCHANGED initialized

UpdateSettings ==
    /\ CanRun
    /\ initialized
    /\ \E caller \in Callers, params \in SettingsRequests :
          Commit("UpdateSettings", caller, 0, params, NoFeed,
                 UpdateSettingsResult(mint, vault, ledger, caller, params))
    /\ UNCHANGED initialized

Next == Initialize \/ Mint \/ Redeem \/ UpdateSettings

Spec == Init /\ [][Next]_vars

----------------------------------------------------------------------------
(* The instructions together with update_metadata, and Initialize requests *)
(* with names and symbols longer than the record is sized for              *)

AdminNameLens == {MIN_NAME_LENGTH - 1, MIN_NAME_LENGTH, MAX_NAME_LENGTH + 1}
AdminSymbolLens == {MIN_SYMBOL_LENGTH, MAX_SYMBOL_LENGTH + 1}
AdminCurrencyLens == {3, MAX_CURRENCY_LENGTH + 5}
AdminFeeds == {[mantissa |-> 1, scale |-> 0, round_open_timestamp |-> ClockNow]}

AdminInitialize ==
    /\ CanRun
    /\ \E name_len \in AdminNameLens, symbol_len \in AdminSymbolLens,
          currency_len \in AdminCurrencyLens, feed \in AdminFeeds :
          LET res == InitializeResult(mint, vault, ledger, initialized,
                         name_len, symbol_len, currency_len, feed)
          IN  /\ Commit("Initialize", "authority", 0, NoParams, feed, res)
              /\ initialized' = (initialized \/ res.err = "Ok")

UpdateMetadata ==
    /\ CanRun
    /\ initialized
    /\ \E caller \in Callers, params \in MetadataRequests :
          Commit("UpdateMetadata", caller, 0, params, NoFeed,
                 UpdateMetadataResult(mint, vault, ledger, caller, params))
    /\ UNCHANGED initialized

AdminNext ==
    \/ AdminInitialize
    \/ Mint
    \/ Redeem
    \/ UpdateSettings
    \/ UpdateMetadata

AdminSpec == Init /\ [][AdminNext]_vars

----------------------------------------------------------------------------
(* The caller's token account as the ledger keeps it: user_token_account   *)
(* is an SPL token account of the caller, whose units the caller can move  *)
(* to other holders between two instructions of the program.               *)

TransferAmounts == {3, 1000}

\* token::transfer signed by the caller, out of the account Redeem reads
TokenTransfer ==
    /\ CanRun
    /\ initialized
    /\ \E n \in TransferAmounts :
          /\ n <= ledger.user_token
          /\ ledger' = [ledger EXCEPT !.user_token = @ - n]
          /\ last' = [NoOp EXCEPT !.op = "token::transfer",
                                  !.caller = "authority",
                                  !.amount = n]
    /\ ops' = ops + 1
    /\ UNCHANGED <<initialized, mint, vault, failed>>

HolderNext ==
    \/ Initialize
    \/ Mint
    \/ Redeem
    \/ TokenTransfer

HolderSpec == Init /\ [][HolderNext]_vars

----------------------------------------------------------------------------
(* The ratio functions applied to a vault and a record on their own:       *)
(* ValidationService::update_collateral_ratio, StablecoinVault::           *)
(* update_collateral_ratio and ValidationService::validate_collateral_ratio *)

\* totals a vault can hold, and supplies and minimum ratios of a record
VaultTotals == {0, 1, 4, 1000, 1500, 1000000, 1500000, U64_MAX}
Supplies == {0, 1, 1000, 1003, U64_MAX}
MinRatios == {MIN_COLLATERAL_RATIO, DEFAULT_COLLATERAL_RATIO, MAX_COLLATERAL_RATIO_BPS + 1}
CachedRatios == {0, 6667}

\* a record and its vault as Initialize creates them
CreatedAccounts ==
    InitializeResult(EmptyMint, EmptyVault, EmptyLedger, FALSE, MIN_NAME_LENGTH,
        MIN_SYMBOL_LENGTH, 3,
        [mantissa |-> 1, scale |-> 0, round_open_timestamp |-> ClockNow])

\* the two recomputations of the cached ratio
RatioUpdates ==
    {"ValidationService::update_collateral_ratio",
     "StablecoinVault::update_collateral_ratio"}

\* amounts and minimum ratios handed to can_withdraw
WithdrawAmounts == {0, 100, 900, 1000}
WithdrawMinRatios == {14000, 16000}

RatioInit ==
    /\ initialized = TRUE
    /\ \E supply \in Supplies, min_ratio \in MinRatios :
          mint = [CreatedAccounts.mint EXCEPT
                      !.current_supply = supply,
                      !.settings.min_collateral_ratio = min_ratio]
    /\ \E collateral \in VaultTotals, locked \in VaultTotals, ratio \in CachedRatios :
          vault = [CreatedAccounts.vault EXCEPT
                      !.total_collateral = collateral,
                      !.total_value_locked = locked,
                      !.current_ratio = ratio]
    /\ ledger = EmptyLedger
    /\ last = NoOp
    /\ ops = 0
    /\ failed = FALSE

\* ValidationService::update_collateral_ratio(vault)
ValidationUpdateRatio ==
    /\ ops < MaxCalls
    /\ vault' = update_collateral_ratio(vault)
    /\ last' = [NoOp EXCEPT !.op = "ValidationService::update_collateral_ratio"]
    /\ ops' = ops + 1
    /\ UNCHANGED <<initialized, mint, ledger, failed>>

\* vault.update_collateral_ratio()
VaultUpdateRatio ==
    /\ ops < MaxCalls
    /\ LET res == vault_update_collateral_ratio(vault)
       IN  /\ vault' = res.vault
           /\ last' = [NoOp EXCEPT !.op = "StablecoinVault::update_collateral_ratio",
                                   !.err = res.err]
    /\ ops' = ops + 1
    /\ UNCHANGED <<initialized, mint, ledger, failed>>

\* ValidationService::validate_collateral_ratio(collateral, supply, min_ratio)
ValidateRatio ==
    /\ ops < MaxCalls
    /\ last' = [NoOp EXCEPT
                  !.op = "ValidationService::validate_collateral_ratio",
                  !.err = validate_collateral_ratio(vault.total_collateral,
                              mint.current_supply,
                              mint.settings.min_collateral_ratio)]
    /\ UNCHANGED <<initialized, mint, vault, ledger, ops, failed>>

\* vault.can_withdraw(amount, min_ratio): the answer is recorded
CanWithdraw ==
    /\ ops < MaxCalls
    /\ \E amount \in WithdrawAmounts, min_ratio \in WithdrawMinRatios :
          last' = [NoOp EXCEPT
                      !.op = "StablecoinVault::can_withdraw",
                      !.amount = amount,
                      !.params = [min_ratio |-> min_ratio],
                      !.cpi = <<can_withdraw(vault, amount, min_ratio)>>]
    /\ UNCHANGED <<initialized, mint, vault, ledger, ops, failed>>

RatioNext ==
    \/ ValidationUpdateRatio
    \/ VaultUpdateRatio
    \/ ValidateRatio
    \/ CanWithdraw

RatioSpec == RatioInit /\ [][RatioNext]_vars

----------------------------------------------------------------------------
(* The validation and percentage functions applied on their own:           *)
(* ValidationService::validate_amount, OracleService::validate_price,      *)
(* StablecoinMint::calculate_fee and common::calculate_percentage          *)

UtilAmounts ==
    {0, 1, MIN_TRANSACTION_AMOUNT - 1, MIN_TRANSACTION_AMOUNT, 10000,
     MAX_TRANSACTION_AMOUNT, MAX_TRANSACTION_AMOUNT + 1, U64_MAX}

UtilBasisPoints == {0, 30, 500, MAX_FEE_BPS, U16_MAX}

\* OraclePrice samples
Samples ==
    [value        : {0, 1, MAX_ORACLE_CONFIDENCE + 1},
     decimals     : {PRICE_DECIMALS},
     last_updated : {ClockNow - MAX_PRICE_STALENESS - 1,
                     ClockNow - MAX_PRICE_STALENESS, ClockNow, ClockNow + 1},
     confidence   : {0, MAX_PRICE_CONFIDENCE, MAX_PRICE_CONFIDENCE + 1,
                     MAX_ORACLE_CONFIDENCE, MAX_ORACLE_CONFIDENCE + 1}]

\* feeds handed to get_median_price: three valid ones of different values,
\* a stale one and one whose round never opened
MedianFeeds ==
    { [mantissa |-> 1,   scale |-> 6, round_open_timestamp |-> ClockNow],
      [mantissa |-> 5,   scale |-> 6, round_open_timestamp |-> ClockNow],
      [mantissa |-> 105, scale |-> 6, round_open_timestamp |-> ClockNow],
      [mantissa |-> 7,   scale |-> 6, round_open_timestamp |-> ClockNow - MAX_PRICE_STALENESS - 1],
      [mantissa |-> 9,   scale |-> 6, round_open_timestamp |-> 0] }

\* every slice of 0 to 3 feeds, and slices of 4 equal feeds
OracleAccounts ==
    UNION { [1..n -> MedianFeeds] : n \in 0..MAX_ORACLE_COUNT }
      \cup { [i \in 1..(MAX_ORACLE_COUNT + 1) |-> f] : f \in MedianFeeds }

\* samples handed to standardize: decimals up to 15 leave a power of ten
\* that fits in the word, 16 and more do not
StandardizeSamples ==
    [value        : {0, 1, 1000, U64_MAX},
     decimals     : {0, 3, PRICE_DECIMALS, 9, 15, 16, 40, 255},
     last_updated : {ClockNow},
     confidence   : {0}]

UtilInit ==
    /\ initialized = TRUE
    /\ \E fee \in UtilBasisPoints :
          mint = [CreatedAccounts.mint EXCEPT !.settings.fee_basis_points = fee]
    /\ vault = CreatedAccounts.vault
    /\ ledger = EmptyLedger
    /\ last = NoOp
    /\ ops = 0
    /\ failed = FALSE

\* ValidationService::validate_amount(amount)
CallValidateAmount ==
    /\ \E amount \in UtilAmounts :
          last' = [NoOp EXCEPT !.op = "ValidationService::validate_amount",
                               !.amount = amount,
                               !.err = validate_amount(amount)]
    /\ UNCHANGED <<initialized, mint, vault, ledger, ops, failed>>

\* OracleService::validate_price(&price, None)
CallValidatePrice ==
    /\ \E price \in Samples :
          last' = [NoOp EXCEPT !.op = "OracleService::validate_price",
                               !.feed = price,
                               !.err = validate_price(price)]
    /\ UNCHANGED <<initialized, mint, vault, ledger, ops, failed>>

\* stablecoin_mint.calculate_fee(amount): the value returned is recorded
CallCalculateFee ==
    /\ \E amount \in UtilAmounts :
          LET fee == StablecoinMint_calculate_fee(mint, amount)
          IN  last' = [NoOp EXCEPT
                          !.op = "StablecoinMint::calculate_fee",
                          !.amount = amount,
                          !.params = [basis_points |-> mint.settings.fee_basis_points],
                          !.err = IF fee = None THEN "MathOverflow" ELSE "Ok",
                          !.cpi = IF fee = None THEN <<>> ELSE <<fee>>]
    /\ UNCHANGED <<initialized, mint, vault, ledger, ops, failed>>

\* common::calculate_percentage(amount, basis_points)
CallCalculatePercentage ==
    /\ \E amount \in UtilAmounts, basis_points \in UtilBasisPoints :
          LET part == calculate_percentage(amount, basis_points)
          IN  last' = [NoOp EXCEPT
                          !.op = "common::calculate_percentage",
                          !.amount = amount,
                          !.params = [basis_points |-> basis_points],
                          !.err = IF part = None THEN "MathOverflow" ELSE "Ok",
                          !.cpi = IF part = None THEN <<>> ELSE <<part>>]
    /\ UNCHANGED <<initialized, mint, vault, ledger, ops, failed>>

\* OracleService::get_median_price(oracle_accounts): the sample returned is
\* recorded
CallGetMedianPrice ==
    /\ \E oracle_accounts \in OracleAccounts :
          LET res == get_median_price(oracle_accounts)
          IN  last' = [NoOp EXCEPT !.op = "OracleService::get_median_price",
                                   !.feed = oracle_accounts,
                                   !.err = res.err,
                                   !.cpi = res.price]
    /\ UNCHANGED <<initialized, mint, vault, ledger, ops, failed>>

\* price.standardize(), under a build with or without overflow checks
CallStandardize ==
    /\ \E price \in StandardizeSamples, overflow_checks \in BOOLEAN :
          LET res == standardize_build(price, overflow_checks)
          IN  last' = [NoOp EXCEPT
                          !.op = "OraclePrice::standardize",
                          !.feed = price,
                          !.params = [overflow_checks |-> overflow_checks],
                          !.err = IF res = None THEN "MathOverflow"
                                  ELSE IF res = Panicked THEN "Panic"
                                  ELSE "Ok",
                          !.cpi = IF res \in {None, Panicked} THEN <<>> ELSE <<res>>]
    /\ UNCHANGED <<initialized, mint, vault, ledger, ops, failed>>

UtilNext ==
    \/ CallStandardize
    \/ CallGetMedianPrice
    \/ CallValidateAmount
    \/ CallValidatePrice
    \/ CallCalculateFee
    \/ CallCalculatePercentage

UtilSpec == UtilInit /\ [][UtilNext]_vars

----------------------------------------------------------------------------
(* Properties *)

\* C1: solvency -- after every successful Mint or Redeem, if current_supply
\* is positive then total_collateral * 10000 / current_supply is at least
\* settings.min_collateral_ratio, within a tolerance of 1 bps.
C1_Solvency ==
    (last.op \in {"Mint", "Redeem"} /\ last.err = "Ok"
        /\ mint.current_supply > 0)
    => LET ratio == ratio_try_u16(vault.total_collateral, mint.current_supply)
       IN  ratio = None \/ ratio + 1 >= mint.settings.min_collateral_ratio

\* C2: in every reachable state current_supply <= settings.max_supply.
C2_SupplyWithinCap ==
    initialized => mint.current_supply <= mint.settings.max_supply

\* C3: in every reachable state settings.min_collateral_ratio lies in
\* [10000, 30000].
C3_MinRatioInRange ==
    initialized =>
        /\ mint.settings.min_collateral_ratio >= MIN_COLLATERAL_RATIO
        /\ mint.settings.min_collateral_ratio <= MAX_COLLATERAL_RATIO_BPS

\* C4: in every reachable state settings.fee_basis_points <= 1000.
C4_FeeWithinLimit ==
    initialized => mint.settings.fee_basis_points <= MAX_FEE_BPS

\* C5: conservation -- in every reachable state, after successful and failed
\* instructions alike, stats.total_minted - stats.total_burned equals the
\* vault's total_value_locked.
C5_Conservation ==
    mint.stats.total_minted - mint.stats.total_burned
        = vault.total_value_locked

\* a successful partial Redeem: units were minted, some burned, some remain
C5_Witness ==
    /\ last.op = "Redeem" /\ last.err = "Ok"
    /\ mint.stats.total_burned > 0
    /\ vault.total_value_locked > 0
    /\ mint.stats.total_fees > 0

\* C6: across every step stats.total_fees, stats.total_minted and
\* stats.total_burned never decrease.
C6_StatsMonotonic ==
    [][ /\ mint'.stats.total_fees >= mint.stats.total_fees
        /\ mint'.stats.total_minted >= mint.stats.total_minted
        /\ mint'.stats.total_burned >= mint.stats.total_burned ]_vars

\* a Redeem has added its fee to the fees a Mint had accumulated
C6_Witness ==
    /\ last.op = "Redeem" /\ last.err = "Ok"
    /\ mint.stats.total_burned > 0
    /\ mint.stats.total_fees
           > calculate_fee(last.amount, mint.settings.fee_basis_points)
    /\ calculate_fee(last.amount, mint.settings.fee_basis_points) > 0

\* C7 as stated: every unpaused Redeem of a positive amount at a valid oracle
\* price that would take total_collateral, current_supply or
\* total_value_locked below zero fails with MathOverflow and leaves both
\* records as they were, and the three quantities are within 0..U64_MAX in
\* every reachable state.
C7_UnderflowFailsMathOverflow ==
    /\ [](/\ vault.total_collateral \in 0..U64_MAX
          /\ vault.total_value_locked \in 0..U64_MAX
          /\ mint.current_supply \in 0..U64_MAX)
    /\ [][ last'.op = "Redeem" =>
           LET amount == last'.amount
               oracle == verify_oracle_price(last'.feed)
               collateral_amount ==
                   calculate_token_amount(amount, oracle.price, TOKEN_DECIMALS)
               fee_amount ==
                   calculate_fee(amount, mint.settings.fee_basis_points)
               burn_amount == checked_add(amount, fee_amount)
               computed ==
                   /\ ~mint.settings.redeem_paused
                   /\ amount > 0
                   /\ oracle.err = "Ok"
                   /\ collateral_amount # None
                   /\ fee_amount # None
                   /\ burn_amount # None
               below ==
                   \/ collateral_amount > vault.total_collateral
                   \/ burn_amount > mint.current_supply
                   \/ amount > vault.total_value_locked
           IN  (computed /\ below)
                   => /\ last'.err = "MathOverflow"
                      /\ mint' = mint /\ vault' = vault ]_vars

\* C7 (amended): a Redeem that passes the pause, amount, balance and oracle
\* checks and would take total_collateral or current_supply below zero fails
\* with MathOverflow; one that would take only total_value_locked below zero
\* fails with MathOverflow when it also passes the ratio check and the burn;
\* no Redeem that would take one of the three below zero succeeds or changes
\* a record; and the three quantities are within 0..U64_MAX in every
\* reachable state.
C7_NoUnderflow ==
    /\ [](/\ vault.total_collateral \in 0..U64_MAX
          /\ vault.total_value_locked \in 0..U64_MAX
          /\ mint.current_supply \in 0..U64_MAX)
    /\ [][ last'.op = "Redeem" =>
           LET amount == last'.amount
               oracle == verify_oracle_price(last'.feed)
               collateral_amount ==
                   calculate_token_amount(amount, oracle.price, TOKEN_DECIMALS)
               fee_amount ==
                   calculate_fee(amount, mint.settings.fee_basis_points)
               burn_amount == checked_add(amount, fee_amount)
               reaches ==
                   /\ ~mint.settings.redeem_paused
                   /\ amount > 0
                   /\ amount <= ledger.user_token
                   /\ validate_amount(amount) = "Ok"
                   /\ oracle.err = "Ok"
                   /\ collateral_amount # None
                   /\ fee_amount # None
                   /\ burn_amount # None
               below_early ==
                   \/ collateral_amount > vault.total_collateral
                   \/ burn_amount > mint.current_supply
               below_late == amount > vault.total_value_locked
               ratio_ok ==
                   \/ mint.current_supply - burn_amount = 0
                   \/ validate_collateral_ratio(
                          vault.total_collateral - collateral_amount,
                          mint.current_supply - burn_amount,
                          mint.settings.min_collateral_ratio) = "Ok"
           IN  /\ (reaches /\ (below_early \/ below_late))
                    => (last'.err # "Ok" /\ mint' = mint /\ vault' = vault)
               /\ (reaches /\ below_early) => last'.err = "MathOverflow"
               /\ (reaches /\ ~below_early /\ below_late /\ ratio_ok
                      /\ burn_amount <= ledger.user_token)
                    => last'.err = "MathOverflow" ]_vars

\* a Redeem of more than the supply can cover has failed with MathOverflow
C7_Witness ==
    /\ last.op = "Redeem" /\ last.err = "MathOverflow"
    /\ last.amount <= ledger.user_token
    /\ last.amount + calculate_fee(last.amount, mint.settings.fee_basis_points)
           > mint.current_supply
    /\ mint.current_supply > 0

\* C8 as stated: while mint_paused is set, every Mint request of the
\* authority, for every amount including 0, fails with MintingPaused and
\* changes neither record.
C8_PausedMintFailsPaused ==
    [][ (last'.op = "Mint" /\ last'.caller = mint.authority
            /\ mint.settings.mint_paused)
        => (last'.err = "MintingPaused" /\ mint' = mint /\ vault' = vault)
      ]_vars

\* C8 amended: while mint_paused is set, a Mint request of the authority
\* fails with MintingPaused when its amount is positive (also above the
\* supply cap) and with InvalidAmount when its amount is 0, and changes
\* neither record.
C8_PausedMintRejected ==
    [][ (last'.op = "Mint" /\ last'.caller = mint.authority
            /\ mint.settings.mint_paused)
        => /\ last'.err = (IF last'.amount > 0 THEN "MintingPaused"
                                               ELSE "InvalidAmount")
           /\ mint' = mint
           /\ vault' = vault ]_vars

\* a paused Mint of an amount above the supply cap was rejected as paused
C8_Witness ==
    /\ last.op = "Mint" /\ last.err = "MintingPaused"
    /\ mint.settings.mint_paused
    /\ last.amount > mint.settings.max_supply - mint.current_supply

\* C9 as stated: while redeem_paused is set, every Redeem request, for every
\* amount including 0, fails with RedeemingPaused and changes neither record.
C9_PausedRedeemFailsPaused ==
    [][ (last'.op = "Redeem" /\ mint.settings.redeem_paused)
        => (last'.err = "RedeemingPaused" /\ mint' = mint /\ vault' = vault)
      ]_vars

\* C9 amended: while redeem_paused is set, a Redeem request fails with
\* RedeemingPaused when its amount is positive (also above the caller's
\* balance) and with InvalidAmount when its amount is 0, and changes neither
\* record.
C9_PausedRedeemRejected ==
    [][ (last'.op = "Redeem" /\ mint.settings.redeem_paused)
        => /\ last'.err = (IF last'.amount > 0 THEN "RedeemingPaused"
                                               ELSE "InvalidAmount")
           /\ mint' = mint
           /\ vault' = vault ]_vars

\* a paused Redeem of more than the caller holds was rejected as paused
C9_Witness ==
    /\ last.op = "Redeem" /\ last.err = "RedeemingPaused"
    /\ mint.settings.redeem_paused
    /\ last.amount > ledger.user_token

\* C10: in Mint and in Redeem every check of the program is evaluated before
\* the first ledger request: an instruction that fails one of its own checks
\* has requested no transfer, mint or burn.
C10_ChecksBeforeLedger ==
    (last.op \in {"Mint", "Redeem"} /\ last.err \notin {"Ok", "LedgerError"})
    => last.cpi = <<>>

\* C11: the cached ratio is never stale -- after every successful Mint and
\* every successful Redeem, vault.current_ratio equals
\* floor(total_value_locked * 10000 / total_collateral) of the vault's new
\* totals, and 0 when either total is 0.
C11_RatioNeverStale ==
    (last.op \in {"Mint", "Redeem"} /\ last.err = "Ok")
    => vault.current_ratio =
           IF vault.total_value_locked = 0 \/ vault.total_collateral = 0
           THEN 0
           ELSE ratio_try_u16(vault.total_value_locked, vault.total_collateral)

\* C12 as stated: a ratio recomputation on a vault with total_collateral
\* 1_500_000 and total_value_locked 1_000_000 sets current_ratio to 6667.
C12_RatioExample6667 ==
    (/\ last.op \in RatioUpdates /\ last.err = "Ok"
     /\ vault.total_collateral = 1500000
     /\ vault.total_value_locked = 1000000)
    => vault.current_ratio = 6667

\* C12 (amended): a ratio recomputation on a vault with total_collateral
\* 1_500_000 and total_value_locked 1_000_000 sets current_ratio to 6666,
\* the floor of 1_000_000 * 10000 / 1_500_000.
C12_RatioExample6666 ==
    (/\ last.op \in RatioUpdates /\ last.err = "Ok"
     /\ vault.total_collateral = 1500000
     /\ vault.total_value_locked = 1000000)
    => vault.current_ratio = 6666

\* the example vault has been recomputed, by each of the two functions
C12_Witness ==
    /\ ops = 2
    /\ last.op = "StablecoinVault::update_collateral_ratio" /\ last.err = "Ok"
    /\ vault.total_collateral = 1500000
    /\ vault.total_value_locked = 1000000
    /\ vault.current_ratio = 6666

\* C13: ratio recomputation is idempotent -- a recomputation that follows a
\* recomputation with no change of the totals in between leaves
\* current_ratio as the first one set it, and every recomputation leaves
\* all other vault fields as they were.
C13_RecomputeIdempotent ==
    [][ last'.op \in RatioUpdates =>
          /\ [vault' EXCEPT !.current_ratio = vault.current_ratio] = vault
          /\ (last.op \in RatioUpdates /\ last.err = "Ok")
                 => vault'.current_ratio = vault.current_ratio ]_vars

\* a second recomputation has run on a vault whose first recomputation
\* replaced the cached ratio by a positive one
C13_Witness ==
    /\ ops = 2
    /\ last.op \in RatioUpdates /\ last.err = "Ok"
    /\ vault.current_ratio > 0
    /\ vault.current_ratio \notin CachedRatios
    /\ vault.total_collateral # vault.total_value_locked

\* C14: in every successful Mint and Redeem the fee is
\* floor(amount * fee_basis_points / 10000) and amount + fee issued units are
\* moved: requested from and credited by the ledger and added to the supply
\* on Mint, burned and taken off the supply on Redeem; the fee is added to
\* stats.total_fees.
C14_FeeAndTotal ==
    [][ (last'.op \in {"Mint", "Redeem"} /\ last'.err = "Ok") =>
          LET amount == last'.amount
              fee    == (amount * mint.settings.fee_basis_points) \div BPS
              moved  == amount + fee
          IN  /\ mint'.stats.total_fees = mint.stats.total_fees + fee
              /\ IF last'.op = "Mint"
                 THEN /\ last'.cpi[2] = <<"mint_to", moved>>
                      /\ ledger'.user_token = ledger.user_token + moved
                      /\ mint'.current_supply = mint.current_supply + moved
                 ELSE /\ last'.cpi[1] = <<"burn", moved>>
                      /\ ledger'.user_token = ledger.user_token - moved
                      /\ mint'.current_supply = mint.current_supply - moved ]_vars

\* a Mint of 1_000_000 at 30 bps has issued 1_003_000 units, 3_000 of them fee
C14_Witness ==
    /\ last.op = "Mint" /\ last.err = "Ok"
    /\ last.amount = 1000000
    /\ mint.settings.fee_basis_points = 30
    /\ last.cpi[2] = <<"mint_to", 1003000>>
    /\ mint.stats.total_fees = 3000

\* C15: a successful Mint of amount adds collateral_amount (the collateral
\* the ledger was asked to move into the vault) to total_collateral, amount
\* to total_value_locked, 1 to deposit_count, amount + fee to current_supply,
\* amount to stats.total_minted and fee to stats.total_fees, and leaves
\* withdrawal_count, stats.total_burned and settings as they were.
C15_MintEffect ==
    [][ (last'.op = "Mint" /\ last'.err = "Ok") =>
          LET amount == last'.amount
              fee    == (amount * mint.settings.fee_basis_points) \div BPS
              collateral_amount == last'.cpi[1][2]
          IN  /\ last'.cpi[1][1] = "transfer"
              /\ ledger'.vault_bond = ledger.vault_bond + collateral_amount
              /\ vault'.total_collateral
                     = vault.total_collateral + collateral_amount
              /\ vault'.total_value_locked = vault.total_value_locked + amount
              /\ vault'.deposit_count = vault.deposit_count + 1
              /\ mint'.current_supply = mint.current_supply + amount + fee
              /\ mint'.stats.total_minted = mint.stats.total_minted + amount
              /\ mint'.stats.total_fees = mint.stats.total_fees + fee
              /\ vault'.withdrawal_count = vault.withdrawal_count
              /\ mint'.stats.total_burned = mint.stats.total_burned
              /\ mint'.settings = mint.settings ]_vars

\* a second Mint, with a positive fee and positive collateral, has succeeded
\* on a vault that has seen a withdrawal
C15_Witness ==
    /\ last.op = "Mint" /\ last.err = "Ok"
    /\ last.cpi[1][2] > 0
    /\ mint.stats.total_fees > 0
    /\ mint.stats.total_burned > 0
    /\ vault.deposit_count = 2
    /\ vault.withdrawal_count = 1

\* C16: a successful Redeem of amount takes collateral_amount (the collateral
\* the ledger was asked to move out of the vault) off total_collateral,
\* amount off total_value_locked and amount + fee off current_supply, adds 1
\* to withdrawal_count, amount to stats.total_burned and fee to
\* stats.total_fees, and leaves deposit_count, stats.total_minted and settings
\* as they were.
C16_RedeemEffect ==
    [][ (last'.op = "Redeem" /\ last'.err = "Ok") =>
          LET amount == last'.amount
              fee    == (amount * mint.settings.fee_basis_points) \div BPS
              collateral_amount == last'.cpi[2][2]
          IN  /\ last'.cpi[2][1] = "transfer"
              /\ ledger'.vault_bond = ledger.vault_bond - collateral_amount
              /\ vault'.total_collateral
                     = vault.total_collateral - collateral_amount
              /\ vault'.total_value_locked = vault.total_value_locked - amount
              /\ vault'.withdrawal_count = vault.withdrawal_count + 1
              /\ mint'.current_supply = mint.current_supply - (amount + fee)
              /\ mint'.stats.total_burned = mint.stats.total_burned + amount
              /\ mint'.stats.total_fees = mint.stats.total_fees + fee
              /\ vault'.deposit_count = vault.deposit_count
              /\ mint'.stats.total_minted = mint.stats.total_minted
              /\ mint'.settings = mint.settings ]_vars

\* a Redeem with a positive fee has succeeded and left supply and collateral
\* behind
C16_Witness ==
    /\ last.op = "Redeem" /\ last.err = "Ok"
    /\ last.cpi[2][2] > 0
    /\ (last.amount * mint.settings.fee_basis_points) \div BPS > 0
    /\ mint.current_supply > 0
    /\ vault.total_collateral > 0
    /\ vault.withdrawal_count = 1

\* C17: a successful Mint locks collateral_amount =
\* floor(amount * scale / price), scale being 10^decimals and price the
\* validated oracle price (so that a higher price needs less collateral).
C17_CollateralFromPrice ==
    [][ (last'.op = "Mint" /\ last'.err = "Ok") =>
          LET amount == last'.amount
              price  == verify_oracle_price(last'.feed).price
              scale  == Pow10(TOKEN_DECIMALS)
              collateral_amount ==
                  IF amount > U64_MAX \div scale THEN None
                  ELSE (amount * scale) \div price
          IN  /\ last'.cpi[1] = <<"transfer", collateral_amount>>
              /\ vault'.total_collateral
                     = vault.total_collateral + collateral_amount ]_vars

\* C18: with minting not paused and amount > 0, a Mint of the authority fails
\* with MaxSupplyExceeded whenever current_supply + amount exceeds
\* settings.max_supply, and leaves the records and the ledger as they were.
C18_CapRejected ==
    [][ (/\ last'.op = "Mint"
         /\ last'.caller = mint.authority
         /\ ~mint.settings.mint_paused
         /\ last'.amount > 0
         /\ last'.amount > mint.settings.max_supply - mint.current_supply)
        => /\ last'.err = "MaxSupplyExceeded"
           /\ mint' = mint /\ vault' = vault /\ ledger' = ledger ]_vars

C20_ValidateRatioExact ==
    last.op = "ValidationService::validate_collateral_ratio"
    => (last.err = "Ok"
          <=> \/ mint.current_supply = 0
              \/ LET ratio == ratio_try_u16(vault.total_collateral,
                                            mint.current_supply)
                 IN  ratio = None \/ ratio >= mint.settings.min_collateral_ratio)

\* C21: validate_amount(amount) succeeds exactly for
\* MIN_TRANSACTION_AMOUNT <= amount <= MAX_TRANSACTION_AMOUNT, fails with
\* AmountTooSmall below the minimum and with AmountTooLarge above the maximum.
C21_AmountBounds ==
    last.op = "ValidationService::validate_amount"
    => /\ last.err = "Ok" <=> (/\ last.amount >= MIN_TRANSACTION_AMOUNT
                               /\ last.amount <= MAX_TRANSACTION_AMOUNT)
       /\ last.amount < MIN_TRANSACTION_AMOUNT => last.err = "AmountTooSmall"
       /\ last.amount > MAX_TRANSACTION_AMOUNT => last.err = "AmountTooLarge"

\* C22: validate_price rejects a sample whose value is not positive with
\* InvalidOraclePrice; a positive sample is rejected with StaleOraclePrice
\* exactly when now - last_updated > 300 (300 seconds old is accepted, 301
\* rejected), whatever its confidence.
C22_StalenessBoundary ==
    last.op = "OracleService::validate_price"
    => LET price == last.feed
           age   == ClockNow - price.last_updated
       IN  /\ price.value <= 0 => last.err = "InvalidOraclePrice"
           /\ price.value > 0
                 => (last.err = "StaleOraclePrice" <=> age > MAX_PRICE_STALENESS)

\* a sample exactly 300 seconds old has been accepted and one 301 seconds old
\* with too wide a confidence has been reported stale
C22_Witness ==
    /\ last.op = "OracleService::validate_price"
    /\ last.feed.value > 0
    /\ \/ /\ ClockNow - last.feed.last_updated = MAX_PRICE_STALENESS
          /\ last.err = "Ok"
       \/ /\ ClockNow - last.feed.last_updated = MAX_PRICE_STALENESS + 1
          /\ last.feed.confidence > MAX_ORACLE_CONFIDENCE
          /\ last.err = "StaleOraclePrice"

\* C23: with the default limit, validate_price rejects a fresh positive
\* sample with InvalidOraclePrice exactly when its confidence exceeds 1% of
\* the price scale (PRICE_SCALE / 100).
C23_ConfidenceLimit ==
    (/\ last.op = "OracleService::validate_price"
     /\ last.feed.value > 0
     /\ ClockNow - last.feed.last_updated <= MAX_PRICE_STALENESS)
    => (last.err = "InvalidOraclePrice"
          <=> last.feed.confidence > MAX_PRICE_CONFIDENCE)

\* C24: no arithmetic step of an instruction panics or truncates -- no
\* instruction ends in a panic, and the ratio a successful Mint caches is
\* the exact floor(total_value_locked * 10000 / total_collateral).
C24_NoPanicNoTruncation ==
    /\ last.err # "Panic"
    /\ (last.op = "Mint" /\ last.err = "Ok"
          /\ vault.total_value_locked > 0 /\ vault.total_collateral > 0)
       => vault.current_ratio
              = ratio_try_u16(vault.total_value_locked, vault.total_collateral)

\* C25: the basis-point percentage computation returns
\* floor(amount * bps / 10000) whenever that result fits in 64 bits, even
\* when the product amount * bps does not.
C25_PercentageWide ==
    last.op \in {"StablecoinMint::calculate_fee", "common::calculate_percentage"}
    => LET amount == last.amount
           bps    == last.params.basis_points
           part   == (amount \div BPS) * bps + (((amount % BPS) * bps) \div BPS)
       IN  (amount \div BPS) <= U64_MAX \div (bps + 1)
              => (last.err = "Ok" /\ last.cpi = <<part>>)

\* C26: a successful Initialize runs only when no record exists and creates
\* the record with current_supply 0, zeroed stats and the default settings
\* {15000, 30 bps, u64::MAX, not paused, not paused}, and the vault with
\* total_collateral, total_value_locked, current_ratio, deposit_count and
\* withdrawal_count 0; an Initialize of an existing record fails and changes
\* nothing.
C26_InitializeOnce ==
    [][ last'.op = "Initialize" =>
          /\ last'.err = "Ok" =>
                /\ ~initialized
                /\ initialized'
                /\ mint'.current_supply = 0
                /\ mint'.stats = [total_minted |-> 0, total_burned |-> 0,
                                  total_fees |-> 0]
                /\ mint'.settings = [fee_basis_points     |-> 30,
                                     max_supply           |-> U64_MAX,
                                     min_collateral_ratio |-> 15000,
                                     mint_paused          |-> FALSE,
                                     redeem_paused        |-> FALSE]
                /\ vault'.total_collateral = 0
                /\ vault'.total_value_locked = 0
                /\ vault'.current_ratio = 0
                /\ vault'.deposit_count = 0
                /\ vault'.withdrawal_count = 0
          /\ initialized =>
                /\ last'.err # "Ok"
                /\ UNCHANGED <<initialized, mint, vault, ledger>> ]_vars

\* a record has been created, has minted, and a second Initialize was refused
C26_Witness ==
    /\ last.op = "Initialize"
    /\ last.err = "AccountAlreadyInUse"
    /\ initialized
    /\ mint.current_supply > 0
    /\ mint.settings.min_collateral_ratio = DEFAULT_COLLATERAL_RATIO

\* C27: in every state reached by Initialize and UpdateMetadata the record's
\* name has length in [3, 32] and its symbol has length in [2, 10].
C27_LengthBounds ==
    initialized
    => /\ mint.name_len >= MIN_NAME_LENGTH
       /\ mint.name_len <= MAX_NAME_LENGTH
       /\ mint.symbol_len >= MIN_SYMBOL_LENGTH
       /\ mint.symbol_len <= MAX_SYMBOL_LENGTH

\* C28 as stated: an UpdateSettings request of the authority whose max_supply
\* is below current_supply fails with InvalidMaxSupply and changes nothing.
C28_LowMaxSupplyFailsInvalidMaxSupply ==
    [][ (/\ last'.op = "UpdateSettings"
         /\ last'.caller = mint.authority
         /\ IsSome(last'.params.max_supply)
         /\ last'.params.max_supply[1] < mint.current_supply)
        => /\ last'.err = "InvalidMaxSupply"
           /\ UNCHANGED <<mint, vault>> ]_vars

\* C28: an UpdateSettings request of the authority whose min_collateral_ratio
\* is below 10000 fails (CollateralRatioTooLow) and changes nothing; one whose
\* min_collateral_ratio is absent or at least 10000 and whose max_supply is
\* below current_supply fails with InvalidMaxSupply and changes nothing,
\* whatever else the request supplies.
C28_NoPartialSettings ==
    [][ (last'.op = "UpdateSettings" /\ last'.caller = mint.authority)
        => LET params == last'.params
               low_ratio == /\ IsSome(params.min_collateral_ratio)
                            /\ params.min_collateral_ratio[1] < MIN_COLLATERAL_RATIO
               low_max == /\ IsSome(params.max_supply)
                          /\ params.max_supply[1] < mint.current_supply
           IN  /\ low_ratio => /\ last'.err = "CollateralRatioTooLow"
                               /\ UNCHANGED <<mint, vault, ledger>>
               /\ (~low_ratio /\ low_max)
                     => /\ last'.err = "InvalidMaxSupply"
                        /\ UNCHANGED <<mint, vault, ledger>> ]_vars

\* a request supplying a new ratio, fee and pause flag with a max_supply
\* below the supply has failed after the handler wrote the ratio and the fee
C28_Witness ==
    /\ last.op = "UpdateSettings"
    /\ last.err = "InvalidMaxSupply"
    /\ last.dirty
    /\ IsSome(last.params.min_collateral_ratio)
    /\ IsSome(last.params.fee_basis_points)
    /\ IsSome(last.params.redeem_paused)
    /\ mint.settings.min_collateral_ratio # last.params.min_collateral_ratio[1]
    /\ mint.settings.fee_basis_points # last.params.fee_basis_points[1]
    /\ mint.settings.redeem_paused # last.params.redeem_paused[1]

\* C29: an UpdateSettings or UpdateMetadata request of a caller other than
\* the record's authority fails and changes neither the record nor the vault.
C29_AuthorityOnly ==
    [][ (/\ last'.op \in {"UpdateSettings", "UpdateMetadata"}
         /\ last'.caller # mint.authority)
        => /\ last'.err # "Ok"
           /\ UNCHANGED <<mint, vault>> ]_vars

\* another caller's UpdateMetadata request with an acceptable name and symbol
\* has been refused
C29_Witness ==
    /\ last.op = "UpdateMetadata"
    /\ last.caller # mint.authority
    /\ last.err = "UnauthorizedUpdate"
    /\ last.params = [name |-> Some(MAX_NAME_LENGTH), symbol |-> Some(MAX_SYMBOL_LENGTH)]
    /\ mint.name_len # MAX_NAME_LENGTH

\* C30: once the record exists no instruction changes its authority, its
\* token_mint, stablebond_mint, price_feed and vault references or the
\* vault's stablecoin_mint and authority; UpdateSettings changes only the
\* settings fields its request supplies and last_updated; UpdateSettings and
\* UpdateMetadata change neither current_supply, stats nor the vault.
C30_Frame ==
    [][ initialized =>
          /\ mint'.authority = mint.authority
          /\ mint'.token_mint = mint.token_mint
          /\ mint'.stablebond_mint = mint.stablebond_mint
          /\ mint'.price_feed = mint.price_feed
          /\ mint'.vault = mint.vault
          /\ vault'.stablecoin_mint = vault.stablecoin_mint
          /\ vault'.authority = vault.authority
          /\ last'.op = "UpdateSettings" =>
                /\ \A f \in DOMAIN mint.settings :
                      ~IsSome(last'.params[f]) => mint'.settings[f] = mint.settings[f]
                /\ mint' = [mint EXCEPT !.settings = mint'.settings,
                                        !.last_updated = mint'.last_updated]
          /\ last'.op \in {"UpdateSettings", "UpdateMetadata"} =>
                /\ mint'.current_supply = mint.current_supply
                /\ mint'.stats = mint.stats
                /\ vault' = vault ]_vars

\* with tokens issued and minting paused, an UpdateSettings request that does
\* not name mint_paused has succeeded and minting is still paused
C30_Witness ==
    /\ last.op = "UpdateSettings"
    /\ last.err = "Ok"
    /\ ~IsSome(last.params.mint_paused)
    /\ mint.settings.mint_paused
    /\ mint.current_supply > 0

C32_MedianLowerOfTwo ==
    (last.op = "OracleService::get_median_price"
       /\ Len(last.feed) \in 1..3 /\ Len(valid_prices(last.feed)) = 2)
    => /\ last.err = "Ok"
       /\ \A i \in 1..2 : last.cpi[1].value <= valid_prices(last.feed)[i].value

\* C32: get_median_price over 1 to 3 feeds drops every sample that fails
\* get_price or validate_price, fails with InvalidOraclePrice exactly when
\* none remains, and otherwise returns a remaining sample: the only one when
\* 1 remains, the one with a value neither above nor below the other two
\* when 3 remain, and the higher of the two when 2 remain.
C32_Median ==
    (last.op = "OracleService::get_median_price" /\ Len(last.feed) \in 1..3)
    => LET kept == valid_prices(last.feed)
           n    == Len(kept)
       IN  /\ \A i \in 1..n : validate_price(kept[i]) = "Ok"
           /\ n = Len(SelectSeq(last.feed,
                      LAMBDA f : /\ f.round_open_timestamp > 0
                                 /\ validate_price(from_switchboard(f)) = "Ok"))
           /\ last.err = (IF n = 0 THEN "InvalidOraclePrice" ELSE "Ok")
           /\ n > 0 =>
                 /\ \E i \in 1..n : last.cpi[1] = kept[i]
                 /\ n = 1 => last.cpi[1] = kept[1]
                 /\ n = 2 => \A i \in 1..2 : last.cpi[1].value >= kept[i].value
                 /\ n = 3 =>
                       /\ Cardinality({i \in 1..3 : kept[i].value <= last.cpi[1].value}) >= 2
                       /\ Cardinality({i \in 1..3 : kept[i].value >= last.cpi[1].value}) >= 2

\* two samples of different values remained out of three feeds and the
\* higher one was returned
C32_Witness ==
    /\ last.op = "OracleService::get_median_price"
    /\ Len(last.feed) = 3
    /\ Len(valid_prices(last.feed)) = 2
    /\ valid_prices(last.feed)[1].value > valid_prices(last.feed)[2].value
    /\ last.err = "Ok"
    /\ last.cpi[1] = valid_prices(last.feed)[1]

\* C33: standardize returns the value unchanged when decimals = 6,
\* floor(value / 10^(decimals - 6)) when decimals > 6 and
\* value * 10^(6 - decimals) when decimals < 6, and fails with MathOverflow,
\* never panicking or wrapping, when the rescaled value does not fit.
C33_Standardize ==
    last.op = "OraclePrice::standardize"
    => LET value == last.feed.value
           decimals == last.feed.decimals
           down == IF Pow10Fits(decimals - PRICE_DECIMALS)
                   THEN value \div Pow10(decimals - PRICE_DECIMALS)
                   ELSE 0
           up == checked_mul(value, Pow10(PRICE_DECIMALS - decimals))
       IN  /\ last.err # "Panic"
           /\ decimals = PRICE_DECIMALS => (last.err = "Ok" /\ last.cpi = <<value>>)
           /\ decimals > PRICE_DECIMALS => (last.err = "Ok" /\ last.cpi = <<down>>)
           /\ decimals < PRICE_DECIMALS =>
                 IF up = None THEN last.err = "MathOverflow"
                 ELSE last.err = "Ok" /\ last.cpi = <<up>>

\* C34: the two ratio recomputations are equivalent -- applied to the same
\* vault, ValidationService::update_collateral_ratio and
\* StablecoinVault::update_collateral_ratio both fail or both succeed with
\* the same current_ratio, failing with MathOverflow when the ratio does not
\* fit in 16 bits.
C34_RecomputationsAgree ==
    [][ last'.op \in RatioUpdates =>
          LET defensive == vault_update_collateral_ratio(vault)
          IN  /\ last'.err = defensive.err
              /\ vault'.current_ratio = defensive.vault.current_ratio ]_vars

\* C40: can_withdraw(amount, min_ratio) is false whenever
\* amount >= total_collateral, and when it is true for an amount it is true
\* for every smaller amount.
C40_CanWithdrawMonotone ==
    last.op = "StablecoinVault::can_withdraw"
    => /\ last.amount >= vault.total_collateral => last.cpi = <<FALSE>>
       /\ last.cpi = <<TRUE>> =>
             \A smaller \in WithdrawAmounts :
                 smaller <= last.amount
                    => can_withdraw(vault, smaller, last.params.min_ratio)

\* C35: in every state reached by Mint, Redeem and UpdateSettings, fee
\* changes included, current_supply >= vault.total_value_locked.
C35_SupplyCoversLocked ==
    initialized => mint.current_supply >= vault.total_value_locked

\* C36: no stranded backing -- in every state reached by Mint and Redeem at
\* varying oracle prices, current_supply = 0 implies total_collateral = 0 and
\* total_value_locked = 0.
C36_NoStrandedBacking ==
    (initialized /\ mint.current_supply = 0)
    => (vault.total_collateral = 0 /\ vault.total_value_locked = 0)

\* the Redeem half of the round trip: when the first Mint on a new record, of
\* an amount a within [MIN_TRANSACTION_AMOUNT, MAX_TRANSACTION_AMOUNT], has
\* succeeded and the same caller next redeems a at the same oracle feed and
\* fee, the Redeem succeeds and the three totals are 0 again
RoundTripRedeem ==
    (/\ ops = 2 /\ last.op = "Mint" /\ last.err = "Ok"
     /\ last.amount >= MIN_TRANSACTION_AMOUNT
     /\ last.amount <= MAX_TRANSACTION_AMOUNT
     /\ last'.op = "Redeem"
     /\ last'.caller = last.caller
     /\ last'.amount = last.amount
     /\ last'.feed = last.feed)
    => /\ last'.err = "Ok"
       /\ mint'.current_supply = 0
       /\ vault'.total_collateral = 0
       /\ vault'.total_value_locked = 0

\* the Mint half of the round trip: the first Mint on a new record, of an
\* amount within [MIN_TRANSACTION_AMOUNT, MAX_TRANSACTION_AMOUNT], is not
\* refused by the arithmetic
RoundTripMint ==
    (/\ ops = 1 /\ initialized /\ last.op = "Initialize"
     /\ last'.op = "Mint"
     /\ last'.amount >= MIN_TRANSACTION_AMOUNT
     /\ last'.amount <= MAX_TRANSACTION_AMOUNT)
    => last'.err # "MathOverflow"

\* C37: round trip -- on a freshly initialized record, a Mint of amount a
\* (MIN_TRANSACTION_AMOUNT <= a <= MAX_TRANSACTION_AMOUNT) followed
\* immediately by a Redeem of a by the same caller, with the oracle price and
\* the fee setting unchanged, succeeds and returns current_supply,
\* total_collateral and total_value_locked to 0.
C37_RoundTrip == [][RoundTripMint /\ RoundTripRedeem]_vars

\* what does hold: once the Mint has succeeded, the Redeem completes the
\* round trip
C37_RoundTripAfterMint == [][RoundTripRedeem]_vars

\* a Mint of the smallest amount against positive collateral has been
\* redeemed in full and the three totals are 0
C37_Witness ==
    /\ last.op = "Redeem" /\ last.err = "Ok"
    /\ last.amount = MIN_TRANSACTION_AMOUNT
    /\ last.cpi[2][2] > 0
    /\ vault.deposit_count = 1 /\ vault.withdrawal_count = 1
    /\ mint.stats.total_minted = last.amount
    /\ mint.stats.total_burned = last.amount
    /\ mint.current_supply = 0
    /\ vault.total_collateral = 0
    /\ vault.total_value_locked = 0

\* C38: every successful Mint locks a strictly positive collateral amount.
C38_PositiveCollateral ==
    (last.op = "Mint" /\ last.err = "Ok")
    => (last.cpi[1][1] = "transfer" /\ last.cpi[1][2] > 0)

\* C39: whenever a Redeem passes all of its own checks, the quantity it asks
\* the ledger to burn (amount + fee) does not exceed the caller's token
\* balance that the balance check read.
C39_BurnWithinBalance ==
    [][ (last'.op = "Redeem" /\ last'.cpi # <<>>)
        => (last'.cpi[1][1] = "burn" /\ last'.cpi[1][2] <= ledger.user_token)
      ]_vars

====
